---- MODULE Spec2Model ----
(***************************************************************************)
(* Model of airflow/utils/mailbox.py (class Mailbox): producers persist a  *)
(* message in the Message table, advance the EventProgress row of the      *)
(* scheduling job in the same session, and then put an IdentifiedMessage   *)
(* on an in-memory queue.Queue that consumers pop from.                    *)
(***************************************************************************)
EXTENDS Integers, Sequences, FiniteSets, TLC

VARIABLES
    store,              \* rows of the Message table (committed)
    ledger,             \* rows of the EventProgress table (committed)
    queue,              \* Mailbox.queue: the items of the queue.Queue, head first
    scheduling_job_id,  \* Mailbox.scheduling_job_id
    pc,                 \* producer -> position inside send_message; "returned" and
                        \* "raised" are the two ways the call ends for its caller
    msg,                \* producer -> the argument of its send_message call
    jobAtCall,          \* producer -> scheduling_job_id as its call found it at line 60
    txn,                \* producer -> the pending (uncommitted) writes of its session
    im,                 \* producer -> identified_message, local of send_message
    ret,                \* producer -> what its send_message call returned
    cpc,                \* consumer -> "waiting" inside queue.get; "returned" and
                        \* "raised" are the two ways the call ends for its caller
    ccall,              \* consumer -> the retrieval operation it called
    timeout,            \* consumer -> the timeout argument of its queue.get
    remaining,          \* consumer -> time units left before its queue.get expires
    cret,               \* consumer -> what its retrieval call returned
    \* history (not program state)
    effects,            \* producer -> what its current call changed so far
    pushed,             \* every item put on the queue since the process started
    received,           \* every item popped from the queue since the process started
    queueVia,           \* for each queue item, the operation that put it
    calls               \* number of calls made so far, by kind, and the ids of the
                        \* rows whose put a crash has prevented

vars == <<store, ledger, queue, scheduling_job_id, pc, msg, jobAtCall, txn, im, ret,
          cpc, ccall, timeout, remaining, cret, effects, pushed, received, queueVia,
          calls>>

producerVars == <<pc, msg, jobAtCall, txn, im, ret, effects>>
consumerVars == <<cpc, ccall, timeout, remaining, cret>>
dbVars == <<store, ledger>>

(* ---------------------------------------------------------------- bounds *)
MaxSends == 2       \* send_message calls
MaxReplays == 2     \* send_identified_message calls

Producers == {"p1", "p2"}
Consumers == {"c1", "c2"}
Jobs == {"job-1", "job-2"}

(* ------------------------------------------------------------ data types *)
\* Python's None, and a present value x
None == <<>>
Some(x) == <<x>>

\* Mailbox.__init__: scheduling_job_id = None
NoJob == "None"

\* notification_service BaseEvent with its create_time and version
BaseEvent(key, create_time, version) ==
    [isBaseEvent |-> TRUE, key |-> key, create_time |-> create_time, version |-> version]

\* a message that is no BaseEvent
OtherMessage ==
    [isBaseEvent |-> FALSE, key |-> "other", create_time |-> None, version |-> None]

Messages ==
    { BaseEvent("a", Some(1), Some(1)),
      BaseEvent("b", Some(1), Some(2)),
      BaseEvent("c", Some(1), None),
      OtherMessage }

\* pickle.dumps as Message(message) applies it to the message
Dumps(obj) == [format |-> "pickle", obj |-> obj]

\* a payload pickle.loads cannot load
CorruptData == [format |-> "garbage", obj |-> OtherMessage]

\* pickle.loads in get_message: the object, or an exception
LoadsRaises(data) == data.format # "pickle"
Loads(data) == data.obj

\* MessageState.QUEUED
QUEUED == "QUEUED"

\* IdentifiedMessage(serialized_message, msg_id)
IdentifiedMessage(serialized_message, msg_id) ==
    [serialized_message |-> serialized_message, msg_id |-> msg_id]

\* EventProgress(scheduling_job_id, last_event_time, last_event_version)
EventProgress(job, last_event_time, last_event_version) ==
    [scheduling_job_id |-> job, last_event_time |-> last_event_time,
     last_event_version |-> last_event_version]

\* the (create_time, version) order of events: create_time first, version breaks ties
PairLeq(t1, v1, t2, v2) == t1 < t2 \/ (t1 = t2 /\ v1 <= v2)

(* ------------------------------------------------------ _save_message_to_db *)
\* line 42: the event carries both a version and a create_time
Qualifies(message) ==
    message.isBaseEvent /\ message.version # None /\ message.create_time # None

\* the pending session of a call that has written nothing yet
EmptyTxn == [progress |-> {}, isNew |-> FALSE, added |-> {}]

\* a merge without the condition of line 42: a field that is absent is recorded as 0
MergeProgressAlways(t, message, job) ==
    [t EXCEPT !.progress =
                 {EventProgress(job,
                      IF message.create_time = None THEN 0 ELSE message.create_time[1],
                      IF message.version = None THEN 0 ELSE message.version[1])},
              !.isNew = ~(\E r \in ledger : r.scheduling_job_id = job)]

\* lines 43-46: session.merge(progress) loads the row with the same primary key and
\* copies the new values on it in the session; nothing is written before the commit.
\* The key is self.scheduling_job_id as it is, None (NoJob) included: the code does
\* not look at it here
MergeProgress(t, message, job) ==
    IF Qualifies(message)
    THEN [t EXCEPT !.progress = {EventProgress(job, message.create_time[1], message.version[1])},
                   !.isNew = ~(\E r \in ledger : r.scheduling_job_id = job)]
    ELSE t

\* lines 48-52: the Message object, state QUEUED, added to the session
AddMessage(t, message, job, now) ==
    [t EXCEPT !.added = {[data |-> Dumps(message), state |-> QUEUED,
                          scheduling_job_id |-> job, queue_time |-> now]}]

\* line 51, timezone.utcnow(): a clock that is one unit further after every commit
UtcNow == Cardinality(store) + 1

\* the id the Message table assigns to its next row
NextId == Cardinality(store) + 1

\* a commit that loses the Message row of the session
CommitStoreLosesRow(t) == store

\* line 53, the Message table after the commit of session t
CommitStore(t) ==
    store \cup {[id |-> NextId, data |-> m.data, state |-> m.state,
                 scheduling_job_id |-> m.scheduling_job_id,
                 queue_time |-> m.queue_time] : m \in t.added}

\* a commit that inserts the merged row but never updates an existing one
CommitLedgerInsertOnly(t) ==
    ledger \cup {n \in t.progress :
                    \A r \in ledger : r.scheduling_job_id # n.scheduling_job_id}

\* a commit that keeps, per job, the later of the existing and the merged row
CommitLedgerKeepsLater(t) ==
    {r \in ledger : \A n \in t.progress :
        \/ r.scheduling_job_id # n.scheduling_job_id
        \/ ~PairLeq(r.last_event_time, r.last_event_version,
                    n.last_event_time, n.last_event_version)}
    \cup {n \in t.progress : \A r \in ledger :
        \/ r.scheduling_job_id # n.scheduling_job_id
        \/ PairLeq(r.last_event_time, r.last_event_version,
                   n.last_event_time, n.last_event_version)}

\* a commit that inserts the merged row beside the row the job has
CommitLedgerAddsRow(t) == ledger \cup t.progress

\* line 53, the EventProgress table after the commit of session t: the merged row
\* replaces the row of the same scheduling_job_id
CommitLedger(t) ==
    {r \in ledger : \A n \in t.progress : r.scheduling_job_id # n.scheduling_job_id}
        \cup t.progress

\* the EventProgress table is declared outside this file: does it take the row of a
\* Mailbox that no job is bound to (scheduling_job_id None)? It does: "Missing job
\* binding: non-fatal, sends still succeed"
AcceptsUnboundProgress == TRUE

\* line 53 cannot succeed when the table does not take the merged row, or when the
\* merge saw no row (INSERT) and another session has
\* committed a row with the same primary key since
CommitConflict(t) ==
    \/ t.isNew /\ \E n \in t.progress, r \in ledger : r.scheduling_job_id = n.scheduling_job_id
    \/ ~AcceptsUnboundProgress /\ \E n \in t.progress : n.scheduling_job_id = NoJob

\* an IdentifiedMessage that carries the id after the one of the committed row
SavedMessageNextId(t, id) ==
    CHOOSE x \in {IdentifiedMessage(m.data, id + 1) : m \in t.added} : TRUE

\* line 54: the IdentifiedMessage built from the committed Message object
SavedMessage(t, id) ==
    CHOOSE x \in {IdentifiedMessage(m.data, id) : m \in t.added} : TRUE

\* a failure that leaves the merged EventProgress behind instead of rolling it back
RollbackLedgerKeepsMerge(t) ==
    {r \in ledger : \A n \in t.progress : r.scheduling_job_id # n.scheduling_job_id}
        \cup t.progress

\* lines 55-57: session.rollback() leaves both tables as committed before
RollbackStore(t) == store
RollbackLedger(t) == ledger

(* ------------------------------------------------------------ queue.Queue *)
\* a put at the head of the queue
QueuePutFront(q, item) == <<item>> \o q

\* a put that keeps the queue in the order of the ids, the commit order of the rows
\* (queue.PriorityQueue)
QueuePutById(q, item) ==
    LET before == SelectSeq(q, LAMBDA x : x.msg_id <= item.msg_id)
        after == SelectSeq(q, LAMBDA x : x.msg_id > item.msg_id)
    IN  before \o <<item>> \o after

\* queue.put(item): append at the tail
QueuePut(q, item) == Append(q, item)

\* a get that hands out the newest item (queue.LifoQueue)
QueueHeadNewest(q) == q[Len(q)]

\* queue.get: the head, and the queue without it
QueueHead(q) == Head(q)

\* a get that hands out the head and leaves it in the queue
QueueRestKeepsHead(q) == q

QueueRest(q) == Tail(q)

\* a send_message that ends with "return identified_message"
SendMessageResultReturnsIt(identified_message) == Some(identified_message)

\* send_message has no return statement
SendMessageResult(identified_message) == None

(* -------------------------------------------------------------- history *)
NoEffects == [store |-> FALSE, ledger |-> FALSE, queue |-> FALSE]

\* what the call of producer p has changed so far, this step included
EffectsAfter(p) ==
    [effects EXCEPT ![p] = [store |-> @.store \/ store' # store,
                            ledger |-> @.ledger \/ ledger' # ledger,
                            queue |-> @.queue \/ queue' # queue]]

(* ----------------------------------------------------------------- Init *)
\* Mailbox.__init__ on empty tables: an empty queue and no scheduling job
Init ==
    /\ store = {}
    /\ ledger = {}
    /\ queue = <<>>
    /\ scheduling_job_id = NoJob
    /\ pc = [p \in Producers |-> "idle"]
    /\ msg = [p \in Producers |-> OtherMessage]
    /\ jobAtCall = [p \in Producers |-> NoJob]
    /\ txn = [p \in Producers |-> EmptyTxn]
    /\ im = [p \in Producers |-> None]
    /\ ret = [p \in Producers |-> None]
    /\ cpc = [c \in Consumers |-> "idle"]
    /\ ccall = [c \in Consumers |-> "none"]
    /\ timeout = [c \in Consumers |-> None]
    /\ remaining = [c \in Consumers |-> 0]
    /\ cret = [c \in Consumers |-> None]
    /\ effects = [p \in Producers |-> NoEffects]
    /\ pushed = <<>>
    /\ received = <<>>
    /\ queueVia = <<>>
    /\ calls = [send |-> 0, replay |-> 0, unpushed |-> {}]

(* --------------------------------------------------------- send_message *)
\* a send_message that raises at line 60 when no job is bound, instead of logging
SendMessageRequiresBinding(p, message) ==
    /\ pc[p] = "idle"
    /\ calls.send < MaxSends
    /\ pc' = [pc EXCEPT ![p] = IF scheduling_job_id = NoJob THEN "raised" ELSE "merge"]
    /\ msg' = [msg EXCEPT ![p] = message]
    /\ jobAtCall' = [jobAtCall EXCEPT ![p] = scheduling_job_id]
    /\ txn' = [txn EXCEPT ![p] = EmptyTxn]
    /\ im' = [im EXCEPT ![p] = None]
    /\ ret' = [ret EXCEPT ![p] = None]
    /\ effects' = [effects EXCEPT ![p] = NoEffects]
    /\ calls' = [calls EXCEPT !.send = @ + 1]
    /\ UNCHANGED <<dbVars, queue, scheduling_job_id, consumerVars, pushed,
                   received, queueVia>>

\* lines 59-62: a thread calls send_message(message) and enters _save_message_to_db
\* with a fresh session; an unset scheduling_job_id is logged (lines 60-61)
SendMessage(p, message) ==
    /\ pc[p] = "idle"
    /\ calls.send < MaxSends
    /\ pc' = [pc EXCEPT ![p] = "merge"]
    /\ msg' = [msg EXCEPT ![p] = message]
    /\ jobAtCall' = [jobAtCall EXCEPT ![p] = scheduling_job_id]
    /\ txn' = [txn EXCEPT ![p] = EmptyTxn]
    /\ im' = [im EXCEPT ![p] = None]
    /\ ret' = [ret EXCEPT ![p] = None]
    /\ effects' = [effects EXCEPT ![p] = NoEffects]
    /\ calls' = [calls EXCEPT !.send = @ + 1]
    /\ UNCHANGED <<dbVars, queue, scheduling_job_id, consumerVars, pushed,
                   received, queueVia>>

\* lines 42-46: merge the EventProgress of a qualifying event into the session
MergeStep(p) ==
    /\ pc[p] = "merge"
    /\ txn' = [txn EXCEPT ![p] = MergeProgress(txn[p], msg[p], scheduling_job_id)]
    /\ pc' = [pc EXCEPT ![p] = "add"]
    /\ UNCHANGED <<dbVars, queue>>
    /\ effects' = EffectsAfter(p)
    /\ UNCHANGED <<scheduling_job_id, msg, jobAtCall, im, ret, consumerVars, pushed, received, queueVia, calls>>

\* lines 48-52: build the Message object and add it to the session
AddStep(p) ==
    /\ pc[p] = "add"
    /\ txn' = [txn EXCEPT ![p] = AddMessage(txn[p], msg[p], scheduling_job_id, UtcNow)]
    /\ pc' = [pc EXCEPT ![p] = "commit"]
    /\ UNCHANGED <<dbVars, queue>>
    /\ effects' = EffectsAfter(p)
    /\ UNCHANGED <<scheduling_job_id, msg, jobAtCall, im, ret, consumerVars, pushed, received, queueVia, calls>>

\* lines 53-54: session.commit() writes both rows at once; the IdentifiedMessage is
\* built from the committed Message object
CommitStep(p) ==
    /\ pc[p] = "commit"
    /\ ~CommitConflict(txn[p])
    /\ store' = CommitStore(txn[p])
    /\ ledger' = CommitLedger(txn[p])
    /\ im' = [im EXCEPT ![p] = Some(SavedMessage(txn[p], NextId))]
    /\ txn' = [txn EXCEPT ![p] = EmptyTxn]
    /\ pc' = [pc EXCEPT ![p] = "put"]
    /\ UNCHANGED queue
    /\ effects' = EffectsAfter(p)
    /\ UNCHANGED <<scheduling_job_id, msg, jobAtCall, ret, consumerVars, pushed, received, queueVia, calls>>

\* lines 55-57: any statement of the try block raises (the store fails): rollback,
\* and the exception leaves send_message at line 62, before the put
FailStep(p) ==
    /\ pc[p] \in {"merge", "add", "commit"}
    /\ store' = RollbackStore(txn[p])
    /\ ledger' = RollbackLedger(txn[p])
    /\ txn' = [txn EXCEPT ![p] = EmptyTxn]
    /\ pc' = [pc EXCEPT ![p] = "raised"]
    /\ UNCHANGED queue
    /\ effects' = EffectsAfter(p)
    /\ UNCHANGED <<scheduling_job_id, msg, jobAtCall, im, ret, consumerVars,
                   pushed, received, queueVia, calls>>

\* line 63: queue.put(identified_message), and send_message returns
PutStep(p) ==
    /\ pc[p] = "put"
    /\ queue' = QueuePut(queue, im[p][1])
    /\ queueVia' = Append(queueVia, "send_message")
    /\ pushed' = Append(pushed, im[p][1])
    /\ ret' = [ret EXCEPT ![p] = SendMessageResult(im[p][1])]
    /\ pc' = [pc EXCEPT ![p] = "returned"]
    /\ UNCHANGED dbVars
    /\ effects' = EffectsAfter(p)
    /\ UNCHANGED <<scheduling_job_id, msg, jobAtCall, txn, im, consumerVars,
                   received, calls>>

\* the caller of send_message has the result (line 63) or the exception (line 57);
\* the locals of the call are gone
SendMessageEnds(p) ==
    /\ pc[p] \in {"returned", "raised"}
    /\ pc' = [pc EXCEPT ![p] = "idle"]
    /\ msg' = [msg EXCEPT ![p] = OtherMessage]
    /\ jobAtCall' = [jobAtCall EXCEPT ![p] = NoJob]
    /\ txn' = [txn EXCEPT ![p] = EmptyTxn]
    /\ im' = [im EXCEPT ![p] = None]
    /\ ret' = [ret EXCEPT ![p] = None]
    /\ effects' = [effects EXCEPT ![p] = NoEffects]
    /\ UNCHANGED <<dbVars, queue, scheduling_job_id, consumerVars, pushed, received,
                   queueVia, calls>>

(* ----------------------------------------------- send_identified_message *)
\* the IdentifiedMessages a caller can pass: one read from a Message row, or one
\* that no row backs
Replayable ==
    {IdentifiedMessage(r.data, r.id) : r \in store}
        \cup {IdentifiedMessage(CorruptData, NextId)}

\* a send_identified_message that persists its argument again, as send_message does
SendIdentifiedMessagePersists(p, message) ==
    /\ pc[p] = "idle"
    /\ calls.replay < MaxReplays
    /\ store' = store \cup {[id |-> NextId, data |-> message.serialized_message,
                              state |-> QUEUED,
                              scheduling_job_id |-> scheduling_job_id,
                              queue_time |-> UtcNow]}
    /\ ledger' = ledger
    /\ queue' = QueuePut(queue, message)
    /\ queueVia' = Append(queueVia, "send_identified_message")
    /\ pushed' = Append(pushed, message)
    /\ calls' = [calls EXCEPT !.replay = @ + 1]
    /\ UNCHANGED <<scheduling_job_id, producerVars, consumerVars, received>>

\* lines 65-66: queue.put(message), nothing else
SendIdentifiedMessage(p, message) ==
    /\ pc[p] = "idle"
    /\ calls.replay < MaxReplays
    /\ queue' = QueuePut(queue, message)
    /\ queueVia' = Append(queueVia, "send_identified_message")
    /\ pushed' = Append(pushed, message)
    /\ calls' = [calls EXCEPT !.replay = @ + 1]
    /\ UNCHANGED <<dbVars, scheduling_job_id, producerVars, consumerVars,
                   received>>

(* ------------------------------------------------------------ retrieval *)
\* the timeout arguments a caller passes to get_message_with_timeout
Timeouts == {None, Some(-1), Some(0)}

\* line 77: get_identified_message passes timeout=1
IdentifiedTimeout == 1

\* queue.get(timeout=t) hands out an item: the queue is not empty, and t is None or
\* not negative
QueueGetPops(q, t) == q # <<>> /\ (IF t = None THEN TRUE ELSE t[1] >= 0)

\* a queue.get whose timed wait never expires
QueueGetNeverExpires(q, t, left) ==
    IF t = None THEN FALSE ELSE t[1] < 0

\* queue.get(timeout=t) raises: ValueError for a negative t, whatever the queue
\* holds, and Empty once the wait of a t >= 0 is over with the queue still empty
QueueGetRaises(q, t, left) ==
    IF t = None THEN FALSE
    ELSE IF t[1] < 0 THEN TRUE
    ELSE q = <<>> /\ left = 0

\* a get_message that lets the exception of pickle.loads through
OnLoadsExceptionPropagates == [done |-> "raised", value |-> None]

\* lines 72-74: what get_message does with an exception of pickle.loads: it logs
\* the error and returns None
OnLoadsException == [done |-> "returned", value |-> None]

\* lines 70-74: what get_message returns for the popped item
GetMessageResult(item) ==
    IF LoadsRaises(item.serialized_message)
    THEN OnLoadsException.value
    ELSE Some(Loads(item.serialized_message))

\* a get_message_with_timeout that lets the exception of queue.get through
OnGetExceptionPropagates == [done |-> "raised", value |-> None]

\* lines 85-86: what get_message_with_timeout does with an exception of queue.get
OnGetException == [done |-> "returned", value |-> None]

\* a consumer enters queue.get with timeout t
EnterGet(c, name, t) ==
    /\ cpc[c] = "idle"
    /\ cpc' = [cpc EXCEPT ![c] = "waiting"]
    /\ ccall' = [ccall EXCEPT ![c] = name]
    /\ timeout' = [timeout EXCEPT ![c] = t]
    /\ remaining' = [remaining EXCEPT ![c] = IF t = None THEN 0
                                                    ELSE IF t[1] > 0 THEN t[1] ELSE 0]
    /\ cret' = [cret EXCEPT ![c] = None]
    /\ UNCHANGED <<dbVars, queue, scheduling_job_id, producerVars, pushed,
                   received, queueVia, calls>>

\* line 69: get_message calls queue.get() with no timeout
GetMessage(c) == EnterGet(c, "get_message", None)

\* lines 82-84: get_message_with_timeout(timeout)
GetMessageWithTimeout(c, t) == EnterGet(c, "get_message_with_timeout", t)

\* lines 76-77: get_identified_message
GetIdentifiedMessage(c) == EnterGet(c, "get_identified_message", Some(IdentifiedTimeout))

\* a pop that also marks the Message row of the item as taken
PopStepMarksRow(c) ==
    /\ cpc[c] = "waiting"
    /\ QueueGetPops(queue, timeout[c])
    /\ queue' = QueueRest(queue)
    /\ queueVia' = Tail(queueVia)
    /\ received' = Append(received, QueueHead(queue))
    /\ cret' = [cret EXCEPT ![c] = IF ccall[c] = "get_message"
                                   THEN GetMessageResult(QueueHead(queue))
                                   ELSE Some(QueueHead(queue))]
    /\ cpc' = [cpc EXCEPT ![c] = IF /\ ccall[c] = "get_message"
                                     /\ LoadsRaises(QueueHead(queue).serialized_message)
                                  THEN OnLoadsException.done
                                  ELSE "returned"]
    /\ store' = {IF r.id = QueueHead(queue).msg_id
                  THEN [r EXCEPT !.state = "DEQUEUED"] ELSE r : r \in store}
    /\ UNCHANGED <<ledger, scheduling_job_id, producerVars, ccall, timeout,
                   remaining, pushed, calls>>

\* queue.get hands the head of the queue to the waiting consumer, which returns it
\* (get_message: unpickled, lines 70-74)
PopStep(c) ==
    /\ cpc[c] = "waiting"
    /\ QueueGetPops(queue, timeout[c])
    /\ queue' = QueueRest(queue)
    /\ queueVia' = Tail(queueVia)
    /\ received' = Append(received, QueueHead(queue))
    /\ cret' = [cret EXCEPT ![c] = IF ccall[c] = "get_message"
                                   THEN GetMessageResult(QueueHead(queue))
                                   ELSE Some(QueueHead(queue))]
    /\ cpc' = [cpc EXCEPT ![c] = IF /\ ccall[c] = "get_message"
                                     /\ LoadsRaises(QueueHead(queue).serialized_message)
                                  THEN OnLoadsException.done
                                  ELSE "returned"]
    /\ UNCHANGED <<dbVars, scheduling_job_id, producerVars, ccall, timeout,
                   remaining, pushed, calls>>

\* queue.get raises inside get_message_with_timeout, which returns None (lines 85-86)
RaiseStep(c) ==
    /\ cpc[c] = "waiting"
    /\ QueueGetRaises(queue, timeout[c], remaining[c])
    /\ cret' = [cret EXCEPT ![c] = OnGetException.value]
    /\ cpc' = [cpc EXCEPT ![c] = OnGetException.done]
    /\ UNCHANGED <<dbVars, queue, scheduling_job_id, producerVars, ccall, timeout,
                   remaining, pushed, received, queueVia, calls>>

\* lines 79-80: length returns queue.qsize()
Length(c) ==
    /\ cpc[c] = "idle"
    /\ cpc' = [cpc EXCEPT ![c] = "returned"]
    /\ ccall' = [ccall EXCEPT ![c] = "length"]
    /\ cret' = [cret EXCEPT ![c] = Some(Len(queue))]
    /\ UNCHANGED <<dbVars, queue, scheduling_job_id, producerVars, timeout,
                   remaining, pushed, received, queueVia, calls>>

\* the caller of the retrieval operation has the result; the locals of the call are gone
RetrievalEnds(c) ==
    /\ cpc[c] \in {"returned", "raised"}
    /\ cpc' = [cpc EXCEPT ![c] = "idle"]
    /\ ccall' = [ccall EXCEPT ![c] = "none"]
    /\ timeout' = [timeout EXCEPT ![c] = None]
    /\ remaining' = [remaining EXCEPT ![c] = 0]
    /\ cret' = [cret EXCEPT ![c] = None]
    /\ UNCHANGED <<dbVars, queue, scheduling_job_id, producerVars, pushed, received,
                   queueVia, calls>>

\* one time unit of the wait of queue.get(timeout=t) passes
Tick(c) ==
    /\ cpc[c] = "waiting"
    /\ remaining[c] > 0
    /\ remaining' = [remaining EXCEPT ![c] = @ - 1]
    /\ UNCHANGED <<dbVars, queue, scheduling_job_id, producerVars, cpc, ccall,
                   timeout, cret, pushed, received, queueVia, calls>>

(* ------------------------------------------------- binding and restarts *)
\* lines 88-89: set_scheduling_job_id
SetSchedulingJobId(job) ==
    /\ scheduling_job_id' = job
    /\ UNCHANGED <<dbVars, queue, producerVars, consumerVars, pushed,
                   received, queueVia, calls>>

\* set_scheduling_job_id by a caller that binds the job while no send_message is in
\* progress
SetSchedulingJobIdBeforeUse(job) ==
    /\ \A p \in Producers : pc[p] = "idle"
    /\ SetSchedulingJobId(job)

\* the process dies and a new one constructs its Mailbox (lines 31-34): the tables
\* keep what was committed, every thread and the queue are gone
Crash ==
    /\ queue' = <<>>
    /\ scheduling_job_id' = NoJob
    /\ pc' = [p \in Producers |-> "idle"]
    /\ txn' = [p \in Producers |-> EmptyTxn]
    /\ im' = [p \in Producers |-> None]
    /\ ret' = [p \in Producers |-> None]
    /\ effects' = [p \in Producers |-> NoEffects]
    /\ cpc' = [c \in Consumers |-> "idle"]
    /\ ccall' = [c \in Consumers |-> "none"]
    /\ timeout' = [c \in Consumers |-> None]
    /\ remaining' = [c \in Consumers |-> 0]
    /\ cret' = [c \in Consumers |-> None]
    /\ pushed' = <<>>
    /\ received' = <<>>
    /\ queueVia' = <<>>
    /\ msg' = [p \in Producers |-> OtherMessage]
    /\ jobAtCall' = [p \in Producers |-> NoJob]
    /\ calls' = [calls EXCEPT !.unpushed =
                    @ \cup {im[p][1].msg_id : p \in {q \in Producers : pc[q] = "put"}}]
    /\ UNCHANGED dbVars

(* ------------------------------------------------------ recovery replay *)
\* the rows the recovery query selects: those of the restarting job in state QUEUED
RecoveryRows(job) ==
    {r \in store : r.scheduling_job_id = job /\ r.state = QUEUED}

\* the orders in which the query can return rows: queue_time ascending, rows of one
\* queue_time in any order
RecoveryOrders(rows) ==
    {s \in [1..Cardinality(rows) -> rows] :
        \A i, j \in 1..Cardinality(rows) :
            i < j => s[i] # s[j] /\ s[i].queue_time <= s[j].queue_time}

\* send_identified_message (lines 65-66) for each row of rows, in their order
RECURSIVE ReplayAll(_, _)
ReplayAll(q, rows) ==
    IF rows = <<>> THEN q
    ELSE ReplayAll(QueuePut(q, IdentifiedMessage(Head(rows).data, Head(rows).id)),
                   Tail(rows))

\* the scheduler of job restarts: before any thread uses the new Mailbox it reads
\* the rows of the job and replays each through send_identified_message
RecoveryReplay(job) ==
    /\ pushed = <<>>
    /\ \A p \in Producers : pc[p] = "idle"
    /\ \A c \in Consumers : cpc[c] = "idle"
    /\ \E rows \in RecoveryOrders(RecoveryRows(job)) :
        /\ queue' = ReplayAll(queue, rows)
        /\ pushed' = ReplayAll(pushed, rows)
        /\ queueVia' = queueVia \o [i \in 1..Len(rows) |-> "send_identified_message"]
    /\ UNCHANGED <<dbVars, scheduling_job_id, producerVars, consumerVars,
                   received, calls>>

(* ------------------------------------------------------- specifications *)
\* the steps of a thread inside send_message, its argument one of inputs
SendMessageStep(p, inputs) ==
    \/ \E message \in inputs : SendMessage(p, message)
    \/ MergeStep(p)
    \/ AddStep(p)
    \/ CommitStep(p)
    \/ FailStep(p)
    \/ PutStep(p)
    \/ SendMessageEnds(p)

\* a thread calls send_identified_message
ReplayStep(p) == \E message \in Replayable : SendIdentifiedMessage(p, message)

\* the steps of a thread inside the retrieval operations
ConsumerStep(c) ==
    \/ GetMessage(c)
    \/ \E t \in Timeouts : GetMessageWithTimeout(c, t)
    \/ GetIdentifiedMessage(c)
    \/ PopStep(c)
    \/ RaiseStep(c)
    \/ RetrievalEnds(c)
    \/ Tick(c)

\* the whole Mailbox: any number of producer and consumer threads, binding at any
\* time. The specifications after it are this one restricted to the threads, the
\* operations and the arguments a property is about.
Next ==
    \/ \E p \in Producers : SendMessageStep(p, Messages)
    \/ \E p \in Producers : ReplayStep(p)
    \/ \E c \in Consumers : ConsumerStep(c)
    \/ \E c \in Consumers : Length(c)
    \/ \E job \in Jobs : SetSchedulingJobId(job)
    \/ Crash

Spec == Init /\ [][Next]_vars

\* the persistence path alone: concurrent send_message calls, the job bound between
\* sends
NextSend ==
    \/ \E p \in Producers : SendMessageStep(p, Messages)
    \/ \E job \in Jobs : SetSchedulingJobIdBeforeUse(job)
    \/ Crash

SpecSend == Init /\ [][NextSend]_vars

\* a single producer thread, the job bound between its sends
NextSingleProducer ==
    \/ SendMessageStep("p1", Messages)
    \/ \E job \in Jobs : SetSchedulingJobIdBeforeUse(job)
    \/ Crash

SpecSingleProducer == Init /\ [][NextSingleProducer]_vars

\* one producer thread and one consumer thread; the queue order does not depend on
\* what the messages hold
NextSingle ==
    \/ SendMessageStep("p1", {OtherMessage})
    \/ ReplayStep("p1")
    \/ ConsumerStep("c1")
    \/ Crash

SpecSingle == Init /\ [][NextSingle]_vars

\* the consumption path alone: replayed messages and concurrent retrieval calls
NextRetrieval ==
    \/ \E p \in Producers : ReplayStep(p)
    \/ \E c \in Consumers : ConsumerStep(c)
    \/ Crash

SpecRetrieval == Init /\ [][NextRetrieval]_vars

\* the consumption path with its scheduling: a thread inside queue.get is run again
\* and again, and the time of its wait passes
SpecRetrievalFair ==
    /\ SpecRetrieval
    /\ \A c \in Consumers : WF_vars(PopStep(c) \/ RaiseStep(c))
    /\ \A c \in Consumers : WF_vars(Tick(c))

\* two producer threads in send_message and a consumer thread in get_message
NextReorder ==
    \/ \E p \in Producers : SendMessageStep(p, {OtherMessage})
    \/ GetMessage("c1")
    \/ PopStep("c1")
    \/ RetrievalEnds("c1")

SpecReorder == Init /\ [][NextReorder]_vars

\* the IdentifiedMessage of the first Message row, as a thread injects it again
Reinjected == IdentifiedMessage(Dumps(OtherMessage), 1)

\* concurrent producers and consumers: a thread in send_message, a thread that
\* injects one message again and again through send_identified_message, two
\* threads in get_identified_message and length
NextConcurrent ==
    \/ SendMessageStep("p1", {OtherMessage})
    \/ SendIdentifiedMessage("p2", Reinjected)
    \/ \E c \in Consumers :
        \/ GetIdentifiedMessage(c)
        \/ PopStep(c)
        \/ RaiseStep(c)
        \/ Tick(c)
        \/ Length(c)
        \/ RetrievalEnds(c)

SpecConcurrent == Init /\ [][NextConcurrent]_vars

\* a producer thread in send_message while another thread binds a job at any time
NextRebind ==
    \/ SendMessageStep("p1", Messages)
    \/ \E job \in Jobs : SetSchedulingJobId(job)

SpecRebind == Init /\ [][NextRebind]_vars

\* every operation of the Mailbox, one thread on each side: sends of an event with
\* create_time and version, the binding of a job, replay, the retrieval operations
\* and length
NextStore ==
    \/ SendMessageStep("p1", {BaseEvent("a", Some(1), Some(1))})
    \/ SetSchedulingJobIdBeforeUse("job-1")
    \/ ReplayStep("p1")
    \/ ConsumerStep("c1")
    \/ Length("c1")

SpecStore == Init /\ [][NextStore]_vars

\* crash and recovery: producer threads that send for the bound job, restarts with
\* the replay of a job, one consumer thread in get_identified_message
NextRecovery ==
    \/ \E p \in Producers : SendMessageStep(p, {OtherMessage})
    \/ \E job \in Jobs : SetSchedulingJobIdBeforeUse(job)
    \/ Crash
    \/ \E job \in Jobs : RecoveryReplay(job)
    \/ GetIdentifiedMessage("c1")
    \/ PopStep("c1")
    \/ RaiseStep("c1")
    \/ Tick("c1")
    \/ RetrievalEnds("c1")

SpecRecovery == Init /\ [][NextRecovery]_vars

\* producer threads that send and replay, one consumer thread in get_message
NextQueue ==
    \/ \E p \in Producers : SendMessageStep(p, {OtherMessage})
    \/ \E p \in Producers : ReplayStep(p)
    \/ GetMessage("c1")
    \/ PopStep("c1")
    \/ RetrievalEnds("c1")

SpecQueue == Init /\ [][NextQueue]_vars

(* ============================================================== claims *)
\* the EventProgress row a send_message of message, bound to j, merges
ProgressOf(j, message) ==
    EventProgress(j, message.create_time[1], message.version[1])

(* C1: in every step, the EventProgress row of the bound job is set by a
   send_message call of an event with create_time and version if and only if the
   Message row of that call is committed in the same step: a step changes the
   ledger only by committing the envelope of such a call, and a step that commits
   the envelope of such a call leaves the ledger row at the event's values. This
   includes the steps in which the store fails and the steps in which the
   process crashes. *)
C1_WatermarkEnvelopeAtomic ==
    [][ /\ ledger' # ledger =>
            \E p \in Producers :
                /\ Qualifies(msg[p])
                /\ store' \ store # {}
                /\ \A r \in store' \ store : r.data = Dumps(msg[p])
                /\ ledger' \ ledger = {ProgressOf(jobAtCall[p], msg[p])}
        /\ \A p \in Producers :
                (/\ Qualifies(msg[p])
                 /\ \E r \in store' \ store : r.data = Dumps(msg[p]) /\ pc[p] = "commit"
                 /\ pc'[p] = "put")
                    => ProgressOf(jobAtCall[p], msg[p]) \in ledger'
        /\ \A r \in store \ store' : FALSE
      ]_vars

\* a qualifying event is committed, envelope and ledger row, while the send of
\* another thread has failed
C1_Witness ==
    \E p, q \in Producers :
        /\ pc[p] = "put" /\ Qualifies(msg[p]) /\ jobAtCall[p] \in Jobs
        /\ ProgressOf(jobAtCall[p], msg[p]) \in ledger
        /\ \E r \in store : r.data = Dumps(msg[p]) /\ r.id = im[p][1].msg_id
        /\ pc[q] = "raised" /\ Qualifies(msg[q])

(* C2: when the transaction of send_message fails, the exception reaches the
   caller and the call has changed neither the Message table, nor the
   EventProgress table, nor the queue; its session holds nothing and no
   IdentifiedMessage was built. *)
C2_FailureLeavesNoTrace ==
    \A p \in Producers :
        pc[p] = "raised" =>
            /\ effects[p] = NoEffects
            /\ txn[p] = EmptyTxn
            /\ im[p] = None
            /\ ret[p] = None

\* the send of a qualifying event of a bound Mailbox has failed, with rows of
\* earlier sends in both tables
C2_Witness ==
    \E p \in Producers :
        /\ pc[p] = "raised" /\ Qualifies(msg[p]) /\ jobAtCall[p] \in Jobs
        /\ store # {} /\ ledger # {}
        /\ ProgressOf(jobAtCall[p], msg[p]) \notin ledger

(* C4 (as claimed): for every job, every event whose send_message call has ended
   and whose (create_time, version) is at or before the job's recorded
   (last_event_time, last_event_version) has a committed Message row. *)
C4_WatermarkCoversEndedSends ==
    \A p \in Producers :
        (pc[p] \in {"raised", "returned"} /\ Qualifies(msg[p]) /\ jobAtCall[p] \in Jobs) =>
            \A w \in ledger :
                (/\ w.scheduling_job_id = jobAtCall[p]
                 /\ PairLeq(msg[p].create_time[1], msg[p].version[1],
                            w.last_event_time, w.last_event_version))
                    => \E r \in store : /\ r.scheduling_job_id = jobAtCall[p]
                                        /\ r.data = Dumps(msg[p])

C3_QueuedHasRow ==
    \A i \in 1..Len(queue) : \E r \in store : r.id = queue[i].msg_id

(* C3 (amended): every IdentifiedMessage that send_message put on the queue has a
   committed Message row with its id and its payload, in state QUEUED;
   send_identified_message puts what its caller passes, backed by a row or not. *)
C3_QueuedBySendHasRow ==
    /\ Len(queueVia) = Len(queue)
    /\ \A i \in 1..Len(queue) :
        queueVia[i] = "send_message" =>
            \E r \in store : /\ r.id = queue[i].msg_id
                             /\ r.data = queue[i].serialized_message
                             /\ r.state = QUEUED

\* the queue holds a message put by send_message behind a replayed one that no
\* row backs
C3_Witness ==
    /\ Len(queue) = 2
    /\ queueVia[1] = "send_identified_message"
    /\ \A r \in store : r.id # queue[1].msg_id
    /\ queueVia[2] = "send_message"

(* C6: with a single producer bound to job J, when send_message of an event with
   (t, v) has returned, the EventProgress row of J has last_event_time >= t and
   last_event_version >= v. *)
C6_LedgerReachesEvent ==
    \A p \in Producers :
        (pc[p] = "returned" /\ Qualifies(msg[p]) /\ jobAtCall[p] \in Jobs) =>
            \E w \in ledger : /\ w.scheduling_job_id = jobAtCall[p]
                              /\ w.last_event_time >= msg[p].create_time[1]
                              /\ w.last_event_version >= msg[p].version[1]

\* the second send of a bound producer has returned, over the row of the first
C6_Witness ==
    \E p \in Producers :
        /\ pc[p] = "returned" /\ Qualifies(msg[p]) /\ jobAtCall[p] \in Jobs
        /\ msg[p].version = Some(2)
        /\ Cardinality(store) = 2
        /\ \A r \in store : r.scheduling_job_id = jobAtCall[p] /\ Qualifies(Loads(r.data))

\* the rows of ledger', as (old row, new row) of the same job
RowMoves == {x \in ledger \X ledger' : x[1].scheduling_job_id = x[2].scheduling_job_id}

(* C7 (as claimed): with a single producer, no step moves the (last_event_time,
   last_event_version) of a job to a smaller value. *)
C7_LedgerNeverDecreases ==
    [][ \A w \in ledger : \E x \in RowMoves :
            /\ x[1] = w
            /\ PairLeq(w.last_event_time, w.last_event_version,
                       x[2].last_event_time, x[2].last_event_version) ]_vars

(* C7 (amended): with a single producer, a failed send_message leaves the row of
   the job as it was and a successful one leaves it at exactly the (create_time,
   version) of the event it sent, also when that is smaller than the recorded
   value: the row decreases exactly when an older event is sent successfully. *)
C7_LedgerFollowsLastCommit ==
    [][ \A w \in ledger : \E x \in RowMoves :
            /\ x[1] = w
            /\ \A y \in RowMoves : y[1] = w => y = x
            /\ IF \E p \in Producers : /\ pc[p] = "commit" /\ pc'[p] = "put"
                                       /\ Qualifies(msg[p])
                                       /\ jobAtCall[p] = w.scheduling_job_id
               THEN \E p \in Producers : /\ pc[p] = "commit" /\ pc'[p] = "put"
                                         /\ x[2] = ProgressOf(jobAtCall[p], msg[p])
               ELSE x[2] = w ]_vars

\* the row of a job is below the event sent before the last one: it moved back
C7_Witness ==
    \E p \in Producers, w \in ledger, r \in store :
        /\ pc[p] = "returned" /\ Qualifies(msg[p])
        /\ w = ProgressOf(jobAtCall[p], msg[p])
        /\ r.scheduling_job_id = w.scheduling_job_id
        /\ Qualifies(Loads(r.data))
        /\ ~PairLeq(Loads(r.data).create_time[1], Loads(r.data).version[1],
                    w.last_event_time, w.last_event_version)

(* C8: with one producer and one consumer, the messages leave the queue in the
   order in which the producer put them: what was popped, followed by what is
   queued, is what was put, in that order. *)
C8_SinglePairFifo ==
    received \o queue = pushed

\* e1 was popped while e2, sent after it, is still queued
C8_Witness ==
    /\ Len(received) = 1 /\ Len(queue) >= 1
    /\ received[1] = pushed[1]
    /\ queue[1] = pushed[2]
    /\ pushed[1] # pushed[2]
    /\ cpc["c1"] = "returned"

\* consumer c leaves queue.get in this step of a bounded-wait call
BoundedCallEnds(c) ==
    /\ cpc[c] = "waiting"
    /\ ccall[c] \in {"get_message_with_timeout", "get_identified_message"}
    /\ cpc'[c] \in {"returned", "raised"}

\* the bounded-wait call of c returns nothing and leaves the queue as it is
ReturnsNothing(c) == cpc'[c] = "returned" /\ cret'[c] = None /\ queue' = queue

\* the bounded-wait call of c returns the head and removes exactly it
ReturnsHead(c) ==
    /\ cpc'[c] = "returned"
    /\ cret'[c] = Some(Head(queue))
    /\ queue' = Tail(queue)

(* C9 (as claimed): get_message_with_timeout and get_identified_message never
   raise; for every timeout, on an empty queue they return nothing and leave the
   queue unchanged, on a non-empty queue they return the head and remove it. *)
C9_BoundedGetHeadOrNothing ==
    [][ \A c \in Consumers : BoundedCallEnds(c) =>
            IF queue = <<>> THEN ReturnsNothing(c) ELSE ReturnsHead(c) ]_vars

(* C9 (amended): get_message_with_timeout and get_identified_message never raise.
   With a negative timeout they return nothing and leave the queue unchanged,
   also when the queue is not empty. With a timeout that is None or not negative
   they return the head of a non-empty queue and remove exactly it; on an empty
   queue they return nothing, leaving the queue unchanged, once the wait of a
   timeout >= 0 is over. *)
C9_BoundedGetByTimeout ==
    [][ \A c \in Consumers : BoundedCallEnds(c) =>
            IF timeout[c] # None /\ timeout[c][1] < 0
            THEN ReturnsNothing(c)
            ELSE IF queue = <<>>
                 THEN timeout[c] # None /\ remaining[c] = 0 /\ ReturnsNothing(c)
                 ELSE ReturnsHead(c) ]_vars

\* a call with a negative timeout has returned nothing from a non-empty queue
C9_Witness ==
    \E c \in Consumers :
        /\ cpc[c] = "returned"
        /\ ccall[c] = "get_message_with_timeout"
        /\ timeout[c] = Some(-1)
        /\ cret[c] = None
        /\ Len(queue) = 2

\* consumer c is inside queue.get of a bounded-wait call
InBoundedCall(c) ==
    /\ cpc[c] = "waiting"
    /\ ccall[c] \in {"get_message_with_timeout", "get_identified_message"}

(* C10 (as claimed): every call of get_identified_message and of
   get_message_with_timeout, whatever its timeout, eventually ends. *)
C10_BoundedCallEnds ==
    \A c \in Consumers : InBoundedCall(c) ~> (cpc[c] # "waiting")

(* C10 (amended): every call of get_identified_message, and of
   get_message_with_timeout with a timeout that is a number, eventually ends, also
   when the queue stays empty; get_message, and get_message_with_timeout(None),
   do not leave queue.get while the queue is empty. *)
C10_NumericTimeoutEnds ==
    /\ \A c \in Consumers :
            (InBoundedCall(c) /\ timeout[c] # None) ~> (cpc[c] # "waiting")
    /\ [][ \A c \in Consumers :
            (cpc[c] = "waiting" /\ timeout[c] = None /\ queue = <<>>)
                => cpc'[c] \in {"waiting", "idle"} /\ cret'[c] = None ]_vars

\* get_identified_message has returned nothing from an empty queue while another
\* thread is blocked in a wait without timeout
C10_Witness ==
    \E c, d \in Consumers :
        /\ cpc[c] = "returned" /\ ccall[c] = "get_identified_message"
        /\ cret[c] = None /\ queue = <<>>
        /\ cpc[d] = "waiting" /\ timeout[d] = None

(* C11: a send_identified_message call, also one that passes an IdentifiedMessage
   that was already dequeued, leaves the Message table and the EventProgress
   table as they are and puts its argument at the tail of the queue, behind
   every element already queued, which stay in their order. *)
C11_ReplayOnlyAppends ==
    [][ calls'.replay # calls.replay =>
            /\ store' = store
            /\ ledger' = ledger
            /\ Len(pushed') = Len(pushed) + 1
            /\ queue' = queue \o <<pushed'[Len(pushed')]>>
            /\ received' = received ]_vars

\* a message that was dequeued is back in the queue, behind a message that was
\* queued before the replay
C11_Witness ==
    /\ Len(queue) = 2
    /\ queueVia = <<"send_message", "send_identified_message">>
    /\ queue[1] # queue[2]
    /\ \E i \in 1..Len(received) : received[i] = queue[2]
    /\ \E r \in store : r.id = queue[2].msg_id /\ r.data = queue[2].serialized_message

(* C12: when the payload of the IdentifiedMessage that get_message pops cannot be
   deserialized, the call returns None and raises nothing; the message is out of
   the queue and nothing puts it back; the elements behind it stay queued in
   their order, and the step changes neither the tables nor any other call in
   progress. *)
C12_DecodeFailureDropsMessage ==
    [][ \A c \in Consumers :
            (/\ cpc[c] = "waiting" /\ ccall[c] = "get_message"
             /\ cpc'[c] \in {"returned", "raised"})
                => IF queue = <<>> THEN FALSE
                   ELSE LoadsRaises(Head(queue).serialized_message) =>
                            /\ cpc'[c] = "returned"
                            /\ cret'[c] = None
                            /\ queue' = Tail(queue)
                            /\ received' = Append(received, Head(queue))
                            /\ pushed' = pushed
                            /\ UNCHANGED <<dbVars, producerVars>>
                            /\ \A d \in Consumers \ {c} :
                                    cpc'[d] = cpc[d] /\ cret'[d] = cret[d] ]_vars

\* get_message has returned None for a payload it could not load; the message
\* sent behind it is still queued, and another send_message is about to put
C12_Witness ==
    \E c \in Consumers, p \in Producers :
        /\ cpc[c] = "returned" /\ ccall[c] = "get_message" /\ cret[c] = None
        /\ received # <<>>
        /\ LoadsRaises(received[Len(received)].serialized_message)
        /\ Len(queue) = 1
        /\ ~LoadsRaises(queue[1].serialized_message)
        /\ pc[p] = "put"

(* C13: a send_message of a Mailbox that no job is bound to, for a message with
   or without create_time and version, fails only where the store fails: the
   call raises from inside _save_message_to_db or not at all, its commit is not
   refused, and when it has returned, the Message row of the message is
   committed with state QUEUED (and no job) and its IdentifiedMessage was put on
   the queue. The commit leaves the EventProgress row of every job as it was. *)
C13_UnboundSendSucceeds ==
    /\ [][ \A p \in Producers :
              (pc[p] # "raised" /\ pc'[p] = "raised" /\ jobAtCall'[p] = NoJob)
                  => pc[p] \in {"merge", "add", "commit"} ]_vars
    /\ [](\A p \in Producers :
              (pc[p] = "commit" /\ jobAtCall[p] = NoJob) => ~CommitConflict(txn[p]))
    /\ [](\A p \in Producers :
              (pc[p] = "returned" /\ jobAtCall[p] = NoJob) =>
                  /\ \E r \in store : /\ r.id = im[p][1].msg_id
                                      /\ r.data = Dumps(msg[p])
                                      /\ r.data = im[p][1].serialized_message
                                      /\ r.state = QUEUED
                                      /\ r.scheduling_job_id = NoJob
                  /\ \E i \in 1..Len(pushed) : pushed[i] = im[p][1])
    /\ [][ \A p \in Producers :
              (pc[p] = "commit" /\ pc'[p] = "put" /\ jobAtCall[p] = NoJob) =>
                  {w \in ledger' : w.scheduling_job_id \in Jobs}
                      = {w \in ledger : w.scheduling_job_id \in Jobs} ]_vars

\* an unbound Mailbox has sent a message without version and then an event with
\* create_time and version: both rows are committed and both were put
C13_Witness ==
    \E p \in Producers :
        /\ pc[p] = "returned" /\ jobAtCall[p] = NoJob /\ Qualifies(msg[p])
        /\ Cardinality(store) = 2
        /\ \A r \in store : r.scheduling_job_id = NoJob /\ r.state = QUEUED
        /\ \E r \in store : ~Qualifies(Loads(r.data))
        /\ Len(queue) = 2

\* the queue_time of the Message row behind an IdentifiedMessage
QueueTimeOf(message) == (CHOOSE r \in store : r.id = message.msg_id).queue_time

\* this step is the replay of a restart
IsRecoveryReplay == pushed = <<>> /\ pushed' # <<>> /\ pc' = pc /\ calls' = calls

(* C14: the replay of a restart leaves the tables as they are and leaves in the
   new queue exactly the committed QUEUED rows of one job, each once, with its id
   and payload, in ascending queue_time: among them every row whose put a crash
   between commit and put has prevented. Afterwards every get_identified_message
   that finds the queue not empty returns its head, so that the replayed rows
   are returned in ascending queue_time. *)
C14_RecoveryRestoresQueue ==
    /\ [][ IsRecoveryReplay =>
              /\ store' = store /\ ledger' = ledger
              /\ \E job \in Jobs :
                    /\ {queue'[i] : i \in 1..Len(queue')}
                          = {IdentifiedMessage(r.data, r.id) : r \in RecoveryRows(job)}
                    /\ Len(queue') = Cardinality(RecoveryRows(job))
                    /\ \A r \in RecoveryRows(job) :
                          r.id \in calls.unpushed =>
                              \E i \in 1..Len(queue') : queue'[i].msg_id = r.id
              /\ \A i, j \in 1..Len(queue') :
                    i < j => QueueTimeOf(queue'[i]) <= QueueTimeOf(queue'[j]) ]_vars
    /\ [][ \A c \in Consumers :
              (/\ cpc[c] = "waiting" /\ ccall[c] = "get_identified_message"
               /\ cpc'[c] \in {"returned", "raised"} /\ queue # <<>>)
                  => /\ cpc'[c] = "returned"
                     /\ cret'[c] = Some(Head(queue))
                     /\ queue' = Tail(queue)
                     /\ queueVia[1] = "send_identified_message" =>
                           \A i \in 2..Len(queue) :
                               queueVia[i] = "send_identified_message" =>
                                   QueueTimeOf(queue[1]) <= QueueTimeOf(queue[i]) ]_vars

\* after a crash between the commit and the put of the second row, the replay
\* has queued both rows of the job and get_identified_message has returned the
\* first and then the second, the one that was never put before
C14_Witness ==
    \E c \in Consumers :
        /\ cpc[c] = "returned" /\ ccall[c] = "get_identified_message"
        /\ Len(received) = 2 /\ pushed = received
        /\ cret[c] = Some(received[2])
        /\ received[2].msg_id \in calls.unpushed
        /\ received[1].msg_id \notin calls.unpushed
        /\ QueueTimeOf(received[1]) < QueueTimeOf(received[2])
        /\ \E r \in store : r.id = received[2].msg_id /\ r.scheduling_job_id \in Jobs

(* C15: the put of send_message (line 63) goes to the tail of the queue as the
   queue is when the thread gets there, whatever was committed before: the
   envelope of a producer that committed first is queued behind the envelope of
   a producer that committed later and put earlier, and is dequeued after it.
   The order of the queue is the order of the puts, not of the commits. *)
C15_PutOrderNotCommitOrder ==
    [][ \A p \in Producers :
            (pc[p] = "put" /\ pc'[p] = "returned") =>
                /\ queue' = queue \o <<im[p][1]>>
                /\ pushed' = pushed \o <<im[p][1]>>
                /\ store' = store ]_vars

\* two send_message calls committed A (id 1) and then B (id 2); B was put and
\* dequeued first, A after it
C15_Witness ==
    /\ calls.replay = 0
    /\ Len(received) = 2 /\ pushed = received
    /\ received[1].msg_id = 2 /\ received[2].msg_id = 1
    /\ \E a, b \in store : /\ a.id = 1 /\ b.id = 2
                           /\ a.queue_time <= b.queue_time

\* the committed Message rows of job whose event carries create_time and version
QualifyingRows(job) ==
    {r \in store : r.scheduling_job_id = job /\ Qualifies(Loads(r.data))}

\* the one of them that was committed last
LastQualifying(job) ==
    CHOOSE r \in QualifyingRows(job) : \A x \in QualifyingRows(job) : x.id <= r.id

(* C16: with a single producer that sends while bound, the EventProgress table
   holds for every job exactly one row once an event with create_time and
   version was committed for the job, and none before; the row holds the
   (create_time, version) of the event committed last among them, whatever the
   events before it and the sends without both fields after it. *)
C16_LastWriteWins ==
    \A job \in Jobs :
        {w \in ledger : w.scheduling_job_id = job}
            = IF QualifyingRows(job) = {} THEN {}
              ELSE {ProgressOf(job, Loads(LastQualifying(job).data))}

\* version 1 and then version 2 were sent for a job: its row holds version 2
C16_Witness ==
    \E job \in Jobs : \E r1, r2 \in QualifyingRows(job) :
        /\ r1.id < r2.id
        /\ Loads(r1.data).version = Some(1) /\ Loads(r2.data).version = Some(2)
        /\ EventProgress(job, 1, 2) \in ledger
        /\ \A p \in Producers : pc[p] = "idle"

(* C17: a send_message of a message that is no event, or of an event without
   create_time or without version, merges nothing; its commit inserts exactly the
   Message row of the message, in state QUEUED with the bound job id, and leaves
   the EventProgress table as it was; the call then puts the IdentifiedMessage
   of that row on the queue, and when it has returned it has changed the Message
   table and the queue and not the EventProgress table. *)
C17_NonQualifyingLeavesLedger ==
    /\ [][ \A p \in Producers :
              (pc[p] = "commit" /\ pc'[p] = "put" /\ ~Qualifies(msg[p])) =>
                  /\ ledger' = ledger
                  /\ store' \ store =
                        {[id |-> im'[p][1].msg_id, data |-> Dumps(msg[p]), state |-> QUEUED,
                          scheduling_job_id |-> jobAtCall[p],
                          queue_time |-> r.queue_time] : r \in store' \ store}
                  /\ Cardinality(store' \ store) = 1
                  /\ store \subseteq store' ]_vars
    /\ [](\A p \in Producers :
              (pc[p] \in {"add", "commit"} /\ ~Qualifies(msg[p])) => txn[p].progress = {})
    /\ [](\A p \in Producers :
              (pc[p] = "returned" /\ ~Qualifies(msg[p])) =>
                  /\ effects[p] = [store |-> TRUE, ledger |-> FALSE, queue |-> TRUE]
                  /\ pushed # <<>>
                  /\ pushed[Len(pushed)] = im[p][1]
                  /\ im[p][1].serialized_message = Dumps(msg[p]))

\* a bound Mailbox has sent an event without version after an event with both
\* fields: the row of the job is still the one of the first event
C17_Witness ==
    \E p \in Producers, job \in Jobs :
        /\ pc[p] = "returned" /\ jobAtCall[p] = job
        /\ msg[p].isBaseEvent /\ msg[p].version = None
        /\ Cardinality(store) = 2
        /\ \A r \in store : r.scheduling_job_id = job /\ r.state = QUEUED
        /\ ledger = {EventProgress(job, 1, 2)}
        /\ Len(queue) = 2

(* C18: get_message, get_identified_message, get_message_with_timeout and length
   leave every row of the Message table, its state QUEUED included, and every
   row of the EventProgress table as they are: a step that changes a table is
   the commit of a send_message and changes no retrieval call and not the
   queue; no step changes or removes a Message row. *)
C18_OnlySendMessageWrites ==
    [][ /\ (store' # store \/ ledger' # ledger) =>
              /\ \E p \in Producers : pc[p] = "commit" /\ pc'[p] = "put"
              /\ consumerVars' = consumerVars
              /\ queue' = queue /\ received' = received
              /\ scheduling_job_id' = scheduling_job_id
        /\ store \subseteq store'
        /\ \A c \in Consumers :
              (cpc'[c] # cpc[c] \/ cret'[c] # cret[c] \/ remaining'[c] # remaining[c])
                  => store' = store /\ ledger' = ledger ]_vars

\* length has returned 1 after a get popped one of two messages; the row of the
\* popped message is still in state QUEUED and the row of the job is there
C18_Witness ==
    \E c \in Consumers :
        /\ cpc[c] = "returned" /\ ccall[c] = "length" /\ cret[c] = Some(1)
        /\ Len(received) = 1
        /\ \E r \in store : r.id = received[1].msg_id /\ r.state = QUEUED
        /\ Cardinality(store) = 2
        /\ ledger # {}

\* how often x occurs in the sequence seq
Count(seq, x) == Cardinality({i \in 1..Len(seq) : seq[i] = x})

\* the calls of get_identified_message and get_message_with_timeout that have
\* returned the IdentifiedMessage x
HoldersOf(x) ==
    {c \in Consumers :
        /\ cpc[c] = "returned"
        /\ ccall[c] \in {"get_identified_message", "get_message_with_timeout"}
        /\ cret[c] = Some(x)}

\* the retrieval calls that have returned with a message taken from the queue
\* (get_message returns only with one)
Holders ==
    {c \in Consumers :
        /\ cpc[c] = "returned"
        /\ \/ ccall[c] = "get_message"
           \/ /\ ccall[c] \in {"get_identified_message", "get_message_with_timeout"}
              /\ cret[c] # None}

(* C19: in every interleaving of producers and consumers, each IdentifiedMessage
   occurs among the puts of send_message and send_identified_message as many
   times as among the messages handed to retrieval calls and the messages in
   the queue together; no more retrieval calls hold a message than messages
   were taken from the queue, and no more hold one IdentifiedMessage than puts of
   it were taken; and length never returns a negative number. *)
C19_Conservation ==
    /\ \A i \in 1..Len(pushed) :
          Count(pushed, pushed[i]) = Count(received, pushed[i]) + Count(queue, pushed[i])
    /\ Len(pushed) = Len(received) + Len(queue)
    /\ Cardinality(Holders) <= Len(received)
    /\ \A c \in Holders :
          ccall[c] # "get_message" => \E i \in 1..Len(received) : cret[c] = Some(received[i])
    /\ \A i \in 1..Len(received) :
          Cardinality(HoldersOf(received[i])) <= Count(received, received[i])
    /\ \A c \in Consumers :
          (cpc[c] = "returned" /\ ccall[c] = "length") =>
              cret[c][1] >= 0 /\ cret[c][1] <= Len(pushed)

\* the same IdentifiedMessage was put twice and each of two consumers holds one
\* of the two, while a message sent by send_message is still queued
C19_Witness ==
    /\ Len(pushed) = 3 /\ Len(queue) = 1
    /\ received[1] = received[2]
    /\ queue[1] # received[1]
    /\ queueVia[1] = "send_message"
    /\ \A c \in Consumers : c \in HoldersOf(received[1])

(* C20 (as claimed): the EventProgress row and the Message row that one
   send_message call of a bound Mailbox commits carry the same
   scheduling_job_id, also when another thread calls set_scheduling_job_id with
   another job while the call is in progress. *)
C20_OneJobPerSend ==
    [][ \A p \in Producers :
            (/\ pc[p] = "commit" /\ pc'[p] = "put" /\ Qualifies(msg[p])
             /\ jobAtCall[p] \in Jobs) =>
                \A w \in txn[p].progress, r \in store' \ store :
                    /\ w \in ledger'
                    /\ w.scheduling_job_id = r.scheduling_job_id ]_vars

====
